---- MODULE Spec2Model ----
(***************************************************************************)
(* Model of filial.py: a store of branch ("filial") records kept as a JSON *)
(* array in one file, with five operations: add_filial, del_filial,        *)
(* get_filial, get_filiais and get_filial_proxima.                         *)
(*                                                                         *)
(* The file is modelled as a flag (does it exist) and its text, the text   *)
(* being the sequence of JSON tokens in it (whitespace, which the decoder  *)
(* skips, is left out).  json.load is a parser of that token sequence and  *)
(* json.dump a printer to it.  The decoder covers the documents the store  *)
(* is about: a scalar, an object of scalars, or an array of scalars and    *)
(* objects of scalars.                                                     *)
(*                                                                         *)
(* Python values are records of one shape per nesting level:               *)
(*   scalar   [k, n, s]              k in {"int", "str"}                   *)
(*   element  [k, n, s, d]           k in {"int", "str", "dict"},          *)
(*                                   d the dict's items in insertion order *)
(*   value    [k, n, s, d, items]    k in {"none","int","str","dict",      *)
(*                                   "list"}                               *)
(* The file is assumed readable and writable whenever it exists.           *)
(***************************************************************************)
EXTENDS Integers, Sequences, FiniteSets

VARIABLES file, before, call, ret, out

vars == <<file, before, call, ret, out>>

(* ---------------------------- bounds ----------------------------------- *)

MaxLen == 3

\* the ids the calls and the initial records use
Ids == {1, 2}

Nomes == {"Centro", "Sul"}

Bairros == {"Tijuca", "Leblon"}

(* --------------------------- status codes ------------------------------ *)

OPERACAO_REALIZADA_COM_SUCESSO == 0

ARQUIVO_NAO_ENCONTRADO == 30

ARQUIVO_EM_FORMATO_INVALIDO == 31

ERRO_NA_ESCRITA_DO_ARQUIVO == 32

FILIAL_NAO_ENCONTRADA == 33

ERRO_DESCONHECIDO == 34

BAIRRO_NAO_ENCONTRADO == 35

(* --------------------------- Python values ----------------------------- *)

ScInt(n) == [k |-> "int", n |-> n, s |-> ""]

ScStr(s) == [k |-> "str", n |-> 0, s |-> s]

Item(key, val) == [key |-> key, val |-> val]

ElScalar(sc) == [k |-> sc.k, n |-> sc.n, s |-> sc.s, d |-> <<>>]

ElDict(d) == [k |-> "dict", n |-> 0, s |-> "", d |-> d]

PyNone == [k |-> "none", n |-> 0, s |-> "", d |-> <<>>, items |-> <<>>]

PyInt(n) == [k |-> "int", n |-> n, s |-> "", d |-> <<>>, items |-> <<>>]

PyStr(s) == [k |-> "str", n |-> 0, s |-> s, d |-> <<>>, items |-> <<>>]

PyDict(d) == [k |-> "dict", n |-> 0, s |-> "", d |-> d, items |-> <<>>]

PyList(items) == [k |-> "list", n |-> 0, s |-> "", d |-> <<>>, items |-> items]

PyOfElement(e) == [k |-> e.k, n |-> e.n, s |-> e.s, d |-> e.d, items |-> <<>>]

(* d[key] = val on a dict: an existing key keeps its place, a new one is   *)
(* appended.                                                               *)
DictSet(d, key, val) ==
    IF \E i \in 1..Len(d) : d[i].key = key
    THEN [i \in 1..Len(d) |-> IF d[i].key = key THEN Item(key, val) ELSE d[i]]
    ELSE Append(d, Item(key, val))

HasKey(e, key) == e.k = "dict" /\ \E i \in 1..Len(e.d) : e.d[i].key = key

\* e[key], defined when HasKey(e, key)
Subscript(e, key) == e.d[CHOOSE i \in 1..Len(e.d) : e.d[i].key = key].val

ScalarEq(a, b) == a.k = b.k /\ a.n = b.n /\ a.s = b.s

\* dict == dict: the same keys with equal values, in any order
DictEq(a, b) ==
    /\ Len(a) = Len(b)
    /\ \A i \in 1..Len(a) :
          \E j \in 1..Len(b) : a[i].key = b[j].key /\ ScalarEq(a[i].val, b[j].val)

ElementEq(x, y) ==
    /\ x.k = y.k
    /\ IF x.k = "dict" THEN DictEq(x.d, y.d) ELSE x.n = y.n /\ x.s = y.s

(* ----------------------------- JSON text ------------------------------- *)

Tok(t, s, n) == [t |-> t, s |-> s, n |-> n]

P(c) == Tok(c, "", 0)

TStr(s) == Tok("str", s, 0)

TInt(n) == Tok("int", "", n)

\* a bare word that is no JSON literal, such as  not  or  json
TWord(s) == Tok("word", s, 0)

IsScalarTok(t) == t.t \in {"int", "str"}

ScalarOfTok(t) == [k |-> t.t, n |-> t.n, s |-> t.s]

TokOfScalar(sc) == Tok(sc.k, sc.s, sc.n)

RECURSIVE DumpItems(_, _)
DumpItems(d, i) ==
    IF i > Len(d) THEN <<>>
    ELSE (IF i > 1 THEN <<P(",")>> ELSE <<>>)
         \o <<TStr(d[i].key), P(":"), TokOfScalar(d[i].val)>>
         \o DumpItems(d, i + 1)

DumpElement(e) ==
    IF e.k = "dict" THEN <<P("{")>> \o DumpItems(e.d, 1) \o <<P("}")>>
    ELSE <<Tok(e.k, e.s, e.n)>>

RECURSIVE DumpElements(_, _)
DumpElements(items, i) ==
    IF i > Len(items) THEN <<>>
    ELSE (IF i > 1 THEN <<P(",")>> ELSE <<>>)
         \o DumpElement(items[i])
         \o DumpElements(items, i + 1)

\* json.dump(filiais, file, indent=4) of a list
json_dump(items) == <<P("[")>> \o DumpElements(items, 1) \o <<P("]")>>

DecodeError == [ok |-> FALSE, v |-> PyNone, next |-> 0]

\* the members of an object, from token i (a key) on; acc is the dict so far
RECURSIVE ParseMembers(_, _, _)
ParseMembers(t, i, acc) ==
    IF i + 3 > Len(t) THEN DecodeError
    ELSE IF t[i].t # "str" \/ t[i + 1].t # ":" \/ ~IsScalarTok(t[i + 2]) THEN DecodeError
    ELSE LET d == DictSet(acc, t[i].s, ScalarOfTok(t[i + 2]))
         IN  IF t[i + 3].t = "}" THEN [ok |-> TRUE, v |-> PyDict(d), next |-> i + 4]
             ELSE IF t[i + 3].t = "," THEN ParseMembers(t, i + 4, d)
             ELSE DecodeError

\* an object, from token i (its opening brace) on
ParseObject(t, i) ==
    IF i + 1 > Len(t) THEN DecodeError
    ELSE IF t[i + 1].t = "}" THEN [ok |-> TRUE, v |-> PyDict(<<>>), next |-> i + 2]
    ELSE ParseMembers(t, i + 1, <<>>)

\* the elements of an array, from token i (an element) on
RECURSIVE ParseElements(_, _, _)
ParseElements(t, i, acc) ==
    IF i > Len(t) THEN DecodeError
    ELSE LET e == IF IsScalarTok(t[i])
                  THEN [ok |-> TRUE, v |-> PyOfElement(ElScalar(ScalarOfTok(t[i]))),
                        next |-> i + 1]
                  ELSE IF t[i].t = "{" THEN ParseObject(t, i)
                  ELSE DecodeError
         IN  IF ~e.ok \/ e.next > Len(t) THEN DecodeError
             ELSE LET el   == [k |-> e.v.k, n |-> e.v.n, s |-> e.v.s, d |-> e.v.d]
                      acc2 == Append(acc, el)
                  IN  IF t[e.next].t = "]"
                      THEN [ok |-> TRUE, v |-> PyList(acc2), next |-> e.next + 1]
                      ELSE IF t[e.next].t = "," THEN ParseElements(t, e.next + 1, acc2)
                      ELSE DecodeError

ParseValue(t) ==
    IF Len(t) = 0 THEN DecodeError
    ELSE IF IsScalarTok(t[1])
         THEN [ok |-> TRUE, v |-> PyOfElement(ElScalar(ScalarOfTok(t[1]))), next |-> 2]
    ELSE IF t[1].t = "{" THEN ParseObject(t, 1)
    ELSE IF t[1].t = "["
         THEN IF Len(t) >= 2 /\ t[2].t = "]"
              THEN [ok |-> TRUE, v |-> PyList(<<>>), next |-> 3]
              ELSE ParseElements(t, 2, <<>>)
    ELSE DecodeError

\* json.load that stops at the end of the first value and ignores what follows
json_load_NoExtraData(t) ==
    LET r == ParseValue(t)
    IN  IF r.ok THEN [ok |-> TRUE, v |-> r.v] ELSE [ok |-> FALSE, v |-> PyNone]

\* json.load(file): the value, or JSONDecodeError (ok = FALSE); text after
\* the value is "Extra data", a JSONDecodeError too
json_load(t) ==
    LET r == ParseValue(t)
    IN  IF r.ok /\ r.next = Len(t) + 1 THEN [ok |-> TRUE, v |-> r.v]
        ELSE [ok |-> FALSE, v |-> PyNone]

(* --------------------------- the operations ---------------------------- *)

\* the new record with nome and bairro taken one for the other
Filial_Swapped(id, nome, bairro) ==
    ElDict(<<Item("id", ScInt(id)), Item("nome", ScStr(bairro)),
             Item("bairro", ScStr(nome))>>)

\* the dict add_filial appends: {'id': id, 'nome': nome, 'bairro': bairro}
Filial(id, nome, bairro) ==
    ElDict(<<Item("id", ScInt(id)), Item("nome", ScStr(nome)),
             Item("bairro", ScStr(bairro))>>)

\* {'nome': f['nome'], 'bairro': f['bairro']}, defined when f has both keys
NomeBairro(f) ==
    ElDict(<<Item("nome", Subscript(f, "nome")), Item("bairro", Subscript(f, "bairro"))>>)

(* for f in filiais: the elements a loop over the loaded value visits.     *)
(* A list gives its elements, a dict its keys, a str its characters (each  *)
(* a str; a non-empty str is modelled by one of them, enough to decide     *)
(* every loop below, which raises on the first), an int raises TypeError.  *)
Iterate(v) ==
    CASE v.k = "list" -> [raised |-> FALSE, items |-> v.items]
      [] v.k = "dict" -> [raised |-> FALSE,
                          items |-> [i \in 1..Len(v.d) |-> ElScalar(ScStr(v.d[i].key))]]
      [] v.k = "str"  -> [raised |-> FALSE,
                          items |-> IF v.s = "" THEN <<>> ELSE <<ElScalar(ScStr(v.s))>>]
      [] OTHER        -> [raised |-> TRUE, items |-> <<>>]

\* a scan that looks at one element only
FirstWithId_FirstOnly(items, id, i) ==
    IF i > Len(items) THEN [raised |-> FALSE, idx |-> 0]
    ELSE IF ~HasKey(items[i], "id") THEN [raised |-> TRUE, idx |-> 0]
    ELSE IF ScalarEq(Subscript(items[i], "id"), ScInt(id)) THEN [raised |-> FALSE, idx |-> i]
    ELSE [raised |-> FALSE, idx |-> 0]

(* The first f, from position i on, with f['id'] == id: idx is its         *)
(* position, 0 when there is none.  f['id'] raises (TypeError, KeyError)   *)
(* on an element that is no dict or has no 'id', when the scan reaches it. *)
RECURSIVE FirstWithId(_, _, _)
FirstWithId(items, id, i) ==
    IF i > Len(items) THEN [raised |-> FALSE, idx |-> 0]
    ELSE IF ~HasKey(items[i], "id") THEN [raised |-> TRUE, idx |-> 0]
    ELSE IF ScalarEq(Subscript(items[i], "id"), ScInt(id)) THEN [raised |-> FALSE, idx |-> i]
    ELSE FirstWithId(items, id, i + 1)

\* list.pop() in the place of list.remove(x)
ListRemove_PopLast(items, x, i) == SubSeq(items, 1, Len(items) - 1)

\* list.remove(x): without the first element equal to x
RECURSIVE ListRemove(_, _, _)
ListRemove(items, x, i) ==
    IF i > Len(items) THEN items
    ELSE IF ElementEq(items[i], x)
         THEN SubSeq(items, 1, i - 1) \o SubSeq(items, i + 1, Len(items))
    ELSE ListRemove(items, x, i + 1)

\* add_filial without the check of the id
add_filial_NoDupCheck(fs, id, nome, bairro) ==
    IF ~fs.exists THEN [ret |-> ARQUIVO_NAO_ENCONTRADO, file |-> fs]
    ELSE LET r == json_load(fs.text) IN
    IF ~r.ok THEN [ret |-> ARQUIVO_EM_FORMATO_INVALIDO, file |-> fs]
    ELSE IF r.v.k # "list" THEN [ret |-> ERRO_DESCONHECIDO, file |-> fs]
    ELSE [ret  |-> OPERACAO_REALIZADA_COM_SUCESSO,
          file |-> [exists |-> TRUE,
                    text   |-> json_dump(Append(r.v.items, Filial(id, nome, bairro)))]]

add_filial(fs, id, nome, bairro) ==
    IF ~fs.exists THEN [ret |-> ARQUIVO_NAO_ENCONTRADO, file |-> fs]
    ELSE LET r == json_load(fs.text) IN
    IF ~r.ok THEN [ret |-> ARQUIVO_EM_FORMATO_INVALIDO, file |-> fs]
    ELSE LET it == Iterate(r.v) IN
    IF it.raised THEN [ret |-> ERRO_DESCONHECIDO, file |-> fs]
    ELSE LET found == FirstWithId(it.items, id, 1) IN
    IF found.raised THEN [ret |-> ERRO_DESCONHECIDO, file |-> fs]
    ELSE IF found.idx # 0 THEN [ret |-> ERRO_DESCONHECIDO, file |-> fs]
    \* only a list has append
    ELSE IF r.v.k # "list" THEN [ret |-> ERRO_DESCONHECIDO, file |-> fs]
    ELSE [ret  |-> OPERACAO_REALIZADA_COM_SUCESSO,
          file |-> [exists |-> TRUE,
                    text   |-> json_dump(Append(r.v.items, Filial(id, nome, bairro)))]]

\* del_filial without the check that a record was found
del_filial_NoFoundCheck(fs, id_filial) ==
    IF ~fs.exists THEN [ret |-> ARQUIVO_NAO_ENCONTRADO, file |-> fs]
    ELSE LET r == json_load(fs.text) IN
    IF ~r.ok THEN [ret |-> ARQUIVO_EM_FORMATO_INVALIDO, file |-> fs]
    ELSE LET it == Iterate(r.v) IN
    IF it.raised THEN [ret |-> ERRO_DESCONHECIDO, file |-> fs]
    ELSE LET found == FirstWithId(it.items, id_filial, 1) IN
    IF found.raised THEN [ret |-> ERRO_DESCONHECIDO, file |-> fs]
    ELSE [ret  |-> OPERACAO_REALIZADA_COM_SUCESSO,
          file |-> [exists |-> TRUE,
                    text   |-> json_dump(IF found.idx = 0 THEN it.items
                                         ELSE ListRemove(it.items, it.items[found.idx], 1))]]

\* del_filial that removes every record with the id
del_filial_RemoveAll(fs, id_filial) ==
    IF ~fs.exists THEN [ret |-> ARQUIVO_NAO_ENCONTRADO, file |-> fs]
    ELSE LET r == json_load(fs.text) IN
    IF ~r.ok THEN [ret |-> ARQUIVO_EM_FORMATO_INVALIDO, file |-> fs]
    ELSE LET it == Iterate(r.v) IN
    IF it.raised THEN [ret |-> ERRO_DESCONHECIDO, file |-> fs]
    ELSE LET found == FirstWithId(it.items, id_filial, 1) IN
    IF found.raised THEN [ret |-> ERRO_DESCONHECIDO, file |-> fs]
    ELSE IF found.idx = 0 THEN [ret |-> ERRO_DESCONHECIDO, file |-> fs]
    ELSE [ret  |-> OPERACAO_REALIZADA_COM_SUCESSO,
          file |-> [exists |-> TRUE,
                    text   |-> json_dump(SelectSeq(it.items,
                                  LAMBDA f : ~(HasKey(f, "id")
                                               /\ ScalarEq(Subscript(f, "id"), ScInt(id_filial)))))]]

del_filial(fs, id_filial) ==
    IF ~fs.exists THEN [ret |-> ARQUIVO_NAO_ENCONTRADO, file |-> fs]
    ELSE LET r == json_load(fs.text) IN
    IF ~r.ok THEN [ret |-> ARQUIVO_EM_FORMATO_INVALIDO, file |-> fs]
    ELSE LET it == Iterate(r.v) IN
    IF it.raised THEN [ret |-> ERRO_DESCONHECIDO, file |-> fs]
    ELSE LET found == FirstWithId(it.items, id_filial, 1) IN
    IF found.raised THEN [ret |-> ERRO_DESCONHECIDO, file |-> fs]
    ELSE IF found.idx = 0 THEN [ret |-> ERRO_DESCONHECIDO, file |-> fs]
    ELSE [ret  |-> OPERACAO_REALIZADA_COM_SUCESSO,
          file |-> [exists |-> TRUE,
                    text   |-> json_dump(ListRemove(it.items, it.items[found.idx], 1))]]

\* get_filial with the handlers of the two file errors taken one for the other
get_filial_SwappedHandlers(fs, id) ==
    IF ~fs.exists THEN [ret |-> ARQUIVO_EM_FORMATO_INVALIDO, out |-> PyNone]
    ELSE LET r == json_load(fs.text) IN
    IF ~r.ok THEN [ret |-> ARQUIVO_NAO_ENCONTRADO, out |-> PyNone]
    ELSE LET it == Iterate(r.v) IN
    IF it.raised THEN [ret |-> ERRO_DESCONHECIDO, out |-> PyNone]
    ELSE LET found == FirstWithId(it.items, id, 1) IN
    IF found.raised THEN [ret |-> ERRO_DESCONHECIDO, out |-> PyNone]
    ELSE IF found.idx = 0 \/ Len(it.items[found.idx].d) = 0
         THEN [ret |-> FILIAL_NAO_ENCONTRADA, out |-> PyNone]
    ELSE LET filial == it.items[found.idx] IN
    IF ~HasKey(filial, "nome") \/ ~HasKey(filial, "bairro")
    THEN [ret |-> ERRO_DESCONHECIDO, out |-> PyNone]
    ELSE [ret |-> OPERACAO_REALIZADA_COM_SUCESSO, out |-> PyOfElement(NomeBairro(filial))]

get_filial(fs, id) ==
    IF ~fs.exists THEN [ret |-> ARQUIVO_NAO_ENCONTRADO, out |-> PyNone]
    ELSE LET r == json_load(fs.text) IN
    IF ~r.ok THEN [ret |-> ARQUIVO_EM_FORMATO_INVALIDO, out |-> PyNone]
    ELSE LET it == Iterate(r.v) IN
    IF it.raised THEN [ret |-> ERRO_DESCONHECIDO, out |-> PyNone]
    ELSE LET found == FirstWithId(it.items, id, 1) IN
    IF found.raised THEN [ret |-> ERRO_DESCONHECIDO, out |-> PyNone]
    \* "if filial": None and the empty dict are false
    ELSE IF found.idx = 0 \/ Len(it.items[found.idx].d) = 0
         THEN [ret |-> FILIAL_NAO_ENCONTRADA, out |-> PyNone]
    ELSE LET filial == it.items[found.idx] IN
    IF ~HasKey(filial, "nome") \/ ~HasKey(filial, "bairro")
    THEN [ret |-> ERRO_DESCONHECIDO, out |-> PyNone]
    ELSE [ret |-> OPERACAO_REALIZADA_COM_SUCESSO, out |-> PyOfElement(NomeBairro(filial))]

\* get_filiais that lists the records last to first
get_filiais_Reversed(fs) ==
    IF ~fs.exists THEN [ret |-> ARQUIVO_NAO_ENCONTRADO, out |-> PyList(<<>>)]
    ELSE LET r == json_load(fs.text) IN
    IF ~r.ok THEN [ret |-> ARQUIVO_EM_FORMATO_INVALIDO, out |-> PyList(<<>>)]
    ELSE LET it == Iterate(r.v) IN
    IF it.raised THEN [ret |-> ERRO_DESCONHECIDO, out |-> PyList(<<>>)]
    ELSE IF \E i \in 1..Len(it.items) :
               ~HasKey(it.items[i], "nome") \/ ~HasKey(it.items[i], "bairro")
    THEN [ret |-> ERRO_DESCONHECIDO, out |-> PyList(<<>>)]
    ELSE [ret |-> OPERACAO_REALIZADA_COM_SUCESSO,
          out |-> PyList([i \in 1..Len(it.items) |->
                             NomeBairro(it.items[Len(it.items) + 1 - i])])]

get_filiais(fs) ==
    IF ~fs.exists THEN [ret |-> ARQUIVO_NAO_ENCONTRADO, out |-> PyList(<<>>)]
    ELSE LET r == json_load(fs.text) IN
    IF ~r.ok THEN [ret |-> ARQUIVO_EM_FORMATO_INVALIDO, out |-> PyList(<<>>)]
    ELSE LET it == Iterate(r.v) IN
    IF it.raised THEN [ret |-> ERRO_DESCONHECIDO, out |-> PyList(<<>>)]
    ELSE IF \E i \in 1..Len(it.items) :
               ~HasKey(it.items[i], "nome") \/ ~HasKey(it.items[i], "bairro")
    THEN [ret |-> ERRO_DESCONHECIDO, out |-> PyList(<<>>)]
    ELSE [ret |-> OPERACAO_REALIZADA_COM_SUCESSO,
          out |-> PyList([i \in 1..Len(it.items) |-> NomeBairro(it.items[i])])]

filial_mais_proxima ==
    << <<"Tijuca", 1>>, <<"Ipanema", 2>>, <<"Andarai", 1>>, <<"Leblon", 2>>,
       <<"Grajau", 1>>, <<"Gavea", 2>>, <<"Vila Isabel", 1>> >>

\* a scan of the table that stops one entry short
RECURSIVE ProximaFrom_SkipLast(_, _)
ProximaFrom_SkipLast(bairro, i) ==
    IF i >= Len(filial_mais_proxima)
    THEN [ret |-> BAIRRO_NAO_ENCONTRADO, out |-> PyNone]
    ELSE IF filial_mais_proxima[i][1] = bairro
         THEN [ret |-> OPERACAO_REALIZADA_COM_SUCESSO, out |-> PyInt(filial_mais_proxima[i][2])]
    ELSE ProximaFrom_SkipLast(bairro, i + 1)

RECURSIVE ProximaFrom(_, _)
ProximaFrom(bairro, i) ==
    IF i > Len(filial_mais_proxima)
    THEN [ret |-> BAIRRO_NAO_ENCONTRADO, out |-> PyNone]
    ELSE IF filial_mais_proxima[i][1] = bairro
         THEN [ret |-> OPERACAO_REALIZADA_COM_SUCESSO, out |-> PyInt(filial_mais_proxima[i][2])]
    ELSE ProximaFrom(bairro, i + 1)

get_filial_proxima(bairro) == ProximaFrom(bairro, 1)

(* --------------------------- the state machine ------------------------- *)

Missing == [exists |-> FALSE, text |-> <<>>]

FileOf(text) == [exists |-> TRUE, text |-> text]

\* the (nome, bairro) of the records a store may hold at the start
InitCampos == {<<"Centro", "Tijuca">>, <<"Sul", "Leblon">>}

InitFiliais == {Filial(id, c[1], c[2]) : id \in Ids, c \in InitCampos}

\* every array of at most MaxLen records, ids repeated or not: nothing
\* checks the ids of a file written by hand
InitStores == UNION {[1..n -> InitFiliais] : n \in 0..MaxLen}

\* texts that are not JSON
MalformedTexts ==
    { <<>>,
      <<TWord("not"), TWord("json")>>,
      <<P("[")>>,
      <<P("["), P("{"), TStr("id"), P(":"), TInt(1)>>,
      <<P("["), P("{"), TStr("id"), TInt(1), P("}"), P("]")>>,
      json_dump(<<Filial(1, "Centro", "Tijuca")>>) \o <<P("]")>>,
      <<P("[")>> \o DumpElement(Filial(1, "Centro", "Tijuca")) \o <<P(","), P("]")>>,
      <<P("{"), TStr("id"), P(":"), TInt(1), P("}"), P("}")>> }

\* texts that are JSON but no array of branch records
OddTexts ==
    { <<TStr("not json")>>,
      <<TStr("")>>,
      <<TInt(1)>>,
      <<P("{"), P("}")>>,
      DumpElement(Filial(1, "Centro", "Tijuca")),
      json_dump(<<ElScalar(ScInt(1))>>),
      json_dump(<<Filial(1, "Centro", "Tijuca"), ElScalar(ScStr("Sul"))>>),
      json_dump(<<Filial(1, "Centro", "Tijuca"), ElDict(<<Item("nome", ScStr("Sul"))>>)>>),
      json_dump(<<ElDict(<<Item("id", ScInt(1))>>), Filial(2, "Sul", "Leblon")>>),
      json_dump(<<ElDict(<<>>)>>) }

InitialFiles ==
    {Missing}
    \cup {FileOf(t) : t \in MalformedTexts \cup OddTexts}
    \cup {FileOf(json_dump(st)) : st \in InitStores}

\* the bairros get_filial_proxima is asked about
BairrosConsulta ==
    {"Tijuca", "Ipanema", "Andarai", "Leblon", "Grajau", "Gavea", "Vila Isabel",
     "Copacabana", "ipanema", "Vila", ""}

NoCall == [op |-> "none", id |-> 0, nome |-> "", bairro |-> ""]

\* the number of elements of the array in the file, 0 when there is none
StoreLen(fs) ==
    IF ~fs.exists THEN 0
    ELSE LET r == json_load(fs.text) IN IF r.ok /\ r.v.k = "list" THEN Len(r.v.items) ELSE 0

Init ==
    /\ file \in InitialFiles
    /\ before = file
    /\ call = NoCall
    /\ ret = -1
    /\ out = PyNone

AddFilial ==
    \E id \in Ids, nome \in Nomes, bairro \in Bairros :
        LET r == add_filial(file, id, nome, bairro) IN
        /\ StoreLen(r.file) <= MaxLen
        /\ before' = file
        /\ file' = r.file
        /\ call' = [op |-> "add_filial", id |-> id, nome |-> nome, bairro |-> bairro]
        /\ ret' = r.ret
        /\ out' = PyNone

DelFilial ==
    \E id \in Ids :
        LET r == del_filial(file, id) IN
        /\ before' = file
        /\ file' = r.file
        /\ call' = [op |-> "del_filial", id |-> id, nome |-> "", bairro |-> ""]
        /\ ret' = r.ret
        /\ out' = PyNone

GetFilial ==
    \E id \in Ids :
        LET r == get_filial(file, id) IN
        /\ before' = file
        /\ file' = file
        /\ call' = [op |-> "get_filial", id |-> id, nome |-> "", bairro |-> ""]
        /\ ret' = r.ret
        /\ out' = r.out

GetFiliais ==
    LET r == get_filiais(file) IN
    /\ before' = file
    /\ file' = file
    /\ call' = [op |-> "get_filiais", id |-> 0, nome |-> "", bairro |-> ""]
    /\ ret' = r.ret
    /\ out' = r.out

GetFilialProxima ==
    \E bairro \in BairrosConsulta :
        LET r == get_filial_proxima(bairro) IN
        /\ before' = file
        /\ file' = file
        /\ call' = [op |-> "get_filial_proxima", id |-> 0, nome |-> "", bairro |-> bairro]
        /\ ret' = r.ret
        /\ out' = r.out

Next == AddFilial \/ DelFilial \/ GetFilial \/ GetFiliais \/ GetFilialProxima

Spec == Init /\ [][Next]_vars

(* ------------------------ vocabulary of the claims --------------------- *)

\* e is a record whose id is the integer i
IdIs(e, i) ==
    /\ e.k = "dict"
    /\ \E j \in 1..Len(e.d) : e.d[j].key = "id" /\ e.d[j].val = [k |-> "int", n |-> i, s |-> ""]

\* the value of field key of record e
Campo(e, key) == (CHOOSE it \in {e.d[j] : j \in 1..Len(e.d)} : it.key = key).val

\* e is a branch record: an integer id, a string nome, a string bairro
IsBranchRecord(e) ==
    /\ e.k = "dict"
    /\ \A key \in {"id", "nome", "bairro"} : \E j \in 1..Len(e.d) : e.d[j].key = key
    /\ Campo(e, "id").k = "int"
    /\ Campo(e, "nome").k = "str"
    /\ Campo(e, "bairro").k = "str"

\* the array in the file, when its text is that of an array
IsArray(fs) == fs.exists /\ json_load(fs.text).ok /\ json_load(fs.text).v.k = "list"

Stored(fs) == json_load(fs.text).v.items

\* the file holds a valid array of branch records
ValidStore(fs) == IsArray(fs) /\ \A j \in 1..Len(Stored(fs)) : IsBranchRecord(Stored(fs)[j])

\* the number of records of the array with id i
CountId(fs, i) == Cardinality({j \in 1..Len(Stored(fs)) : IdIs(Stored(fs)[j], i)})

UniqueIds(fs) == ValidStore(fs) /\ \A i \in Ids : CountId(fs, i) <= 1

\* what get and list_all give for record e: its nome and bairro, without the id
SemId(e) ==
    [k |-> "dict", n |-> 0, s |-> "",
     d |-> <<[key |-> "nome", val |-> Campo(e, "nome")],
             [key |-> "bairro", val |-> Campo(e, "bairro")]>>]

Mutators == {"add_filial", "del_filial"}

FileOps == {"add_filial", "del_filial", "get_filial", "get_filiais"}

(* ------------------------------ the claims ----------------------------- *)

(* C1: create then get.  When the file holds a valid array of records none *)
(* of which has id i, add_filial(i, n, b) returns 0 and a get_filial(i) on *)
(* the file it leaves returns 0 with exactly {nome: n, bairro: b}.         *)
C1_CreateThenGet ==
    (call.op = "add_filial" /\ ValidStore(before) /\ CountId(before, call.id) = 0)
    => /\ ret = 0
       /\ get_filial(file, call.id).ret = 0
       /\ get_filial(file, call.id).out =
             [k |-> "dict", n |-> 0, s |-> "",
              d |-> <<[key |-> "nome", val |-> [k |-> "str", n |-> 0, s |-> call.nome]],
                      [key |-> "bairro", val |-> [k |-> "str", n |-> 0, s |-> call.bairro]]>>,
              items |-> <<>>]

C1_Witness ==
    /\ call.op = "add_filial" /\ ret = 0
    /\ ValidStore(before) /\ CountId(before, call.id) = 0 /\ Len(Stored(before)) >= 1
    /\ get_filial(file, call.id).ret = 0

(* C2: create with a duplicate id.  When the array in the file already has *)
(* a record with id i, add_filial(i, n, b) returns 34 and the file is as   *)
(* it was.                                                                 *)
C2_DuplicateCreate ==
    (call.op = "add_filial" /\ IsArray(before) /\ CountId(before, call.id) >= 1)
    => ret = 34 /\ file = before

C2_Witness ==
    /\ call.op = "add_filial" /\ ret = 34
    /\ ValidStore(before) /\ CountId(before, call.id) = 1 /\ Len(Stored(before)) >= 2

(* C3 as stated, on the valid arrays of records a file may hold when it is *)
(* loaded, ids repeated or not: a del_filial(i) that returns 0 is followed *)
(* by a get_filial(i) that returns 33 and no record.                       *)
C3_AnyContent ==
    (call.op = "del_filial" /\ ret = 0 /\ ValidStore(before))
    => get_filial(file, call.id) = [ret |-> 33, out |-> PyNone]

(* C3 amended: when the file holds a valid array of branch records of      *)
(* which at most one has id i, a del_filial(i) that returns 0 is followed  *)
(* by a get_filial(i) that returns 33 and no record.                       *)
C3_DeleteThenGet ==
    (call.op = "del_filial" /\ ret = 0 /\ ValidStore(before) /\ CountId(before, call.id) <= 1)
    => get_filial(file, call.id) = [ret |-> 33, out |-> PyNone]

C3_Witness ==
    /\ call.op = "del_filial" /\ ret = 0
    /\ ValidStore(before) /\ CountId(before, call.id) = 1 /\ Len(Stored(before)) >= 2
    /\ get_filial(file, call.id).ret = 33

(* C4: delete of an id that is not there.  When the file holds a valid     *)
(* array none of whose records has id i, del_filial(i) returns 34 and the  *)
(* file is as it was.                                                      *)
C4_DeleteAbsent ==
    (call.op = "del_filial" /\ ValidStore(before) /\ CountId(before, call.id) = 0)
    => ret = 34 /\ file = before

C4_Witness ==
    /\ call.op = "del_filial" /\ ret = 34
    /\ ValidStore(before) /\ CountId(before, call.id) = 0 /\ Len(Stored(before)) >= 1

(* C5: list_all.  add_filial and del_filial, successful or not, leave a    *)
(* valid array of records a valid array of records, and on one get_filiais *)
(* returns 0 and, in storage order, one {nome, bairro} per stored record.  *)
C5_ListAll ==
    /\ (call.op \in Mutators /\ ValidStore(before)) => ValidStore(file)
    /\ (call.op = "get_filiais" /\ ValidStore(before))
       => /\ ret = 0
          /\ out.k = "list"
          /\ Len(out.items) = Len(Stored(before))
          /\ \A j \in 1..Len(out.items) : out.items[j] = SemId(Stored(before)[j])

C5_Witness ==
    /\ call.op = "get_filiais" /\ ret = 0 /\ ValidStore(before)
    /\ Len(out.items) >= 2
    /\ out.items[1] # out.items[2]

(* C6 as stated: every operation of the module, called while the file does *)
(* not exist, returns 30.                                                  *)
C6_EveryOperation == (call.op # "none" /\ ~before.exists) => ret = 30

(* C6 amended: add_filial, del_filial, get_filial and get_filiais, called  *)
(* while the file does not exist, return 30 (get_filial with no record,    *)
(* get_filiais with the empty list) and do not create the file;            *)
(* get_filial_proxima does not read the file and returns 0 or 35 there.    *)
C6_MissingFile ==
    ~before.exists
    => /\ call.op \in FileOps => ret = 30 /\ file = before
       /\ call.op = "get_filial" => out = PyNone
       /\ call.op = "get_filiais" => out = PyList(<<>>)
       /\ call.op = "get_filial_proxima" => ret \in {0, 35}

C6_Witness == ~before.exists /\ call.op = "add_filial" /\ ret = 30 /\ ~file.exists

C8_NearestBranch ==
    call.op = "get_filial_proxima"
    => /\ file = before
       /\ call.bairro \in {"Tijuca", "Andarai", "Grajau", "Vila Isabel"}
             => ret = 0 /\ out = PyInt(1)
       /\ call.bairro \in {"Ipanema", "Leblon", "Gavea"}
             => ret = 0 /\ out = PyInt(2)
       /\ call.bairro \notin {"Tijuca", "Andarai", "Grajau", "Vila Isabel",
                              "Ipanema", "Leblon", "Gavea"}
             => ret = 35 /\ out = PyNone

C8_Witness ==
    /\ call.op = "get_filial_proxima" /\ call.bairro = "Vila Isabel"
    /\ ret = 0 /\ out = PyInt(1)
    /\ ~file.exists

(* C9: id uniqueness.  A call made on a valid array of records with        *)
(* pairwise distinct ids (before is the file as the last call found it)    *)
(* leaves a valid array of records with pairwise distinct ids, so that no  *)
(* sequence of calls that starts from one leads to a repeated id.          *)
C9_IdsStayUnique == UniqueIds(before) => UniqueIds(file)

C9_Witness ==
    /\ call.op = "add_filial" /\ ret = 0
    /\ UniqueIds(before) /\ UniqueIds(file)
    /\ Len(Stored(file)) = 2

(* C10: a del_filial(i) that returns 0 removes the first record with id i  *)
(* and nothing else: the records before it and after it, a later one with  *)
(* the same id included, stay as they were and in their order.             *)
C10_DeleteFrame ==
    (call.op = "del_filial" /\ ret = 0)
    => /\ IsArray(before) /\ IsArray(file)
       /\ LET old == Stored(before)
              new == Stored(file)
              pos == {j \in 1..Len(old) : IdIs(old[j], call.id)}
          IN  /\ pos # {}
              /\ Len(new) = Len(old) - 1
              /\ LET first == CHOOSE j \in pos : \A m \in pos : j <= m
                 IN  \A j \in 1..Len(new) :
                        new[j] = IF j < first THEN old[j] ELSE old[j + 1]

C10_Witness ==
    /\ call.op = "del_filial" /\ ret = 0
    /\ ValidStore(before) /\ CountId(before, call.id) = 2 /\ CountId(file, call.id) = 1
    /\ Len(Stored(before)) = 3
    /\ \E j \in 1..3 : IdIs(Stored(before)[j], call.id) /\ Stored(before)[j] \notin
                          {Stored(file)[m] : m \in 1..2}

====
